---------------------------- MODULE Spec2Model ----------------------------
(***************************************************************************)
(* A model of torchbearer: the Bresenham line iterator (bresenham.rs), the *)
(* two circle iterators (bresenham.rs), the raycasting field of view       *)
(* (fov.rs) and the A* search over a four way grid (path.rs).  Each of the *)
(* four parts has its own specification (SpecLine, SpecCircle, SpecFov,    *)
(* SpecPath); the variables of the other parts stay idle.                  *)
(*                                                                         *)
(* Points are pairs <<x, y>> of integers.  The coordinates used here are   *)
(* small, so i32 arithmetic never wraps and is modelled by Integers.       *)
(***************************************************************************)
EXTENDS Integers, Sequences, FiniteSets

VARIABLES
    \* BresenhamLine
    lpc,      \* "idle", "args" (start and end chosen), "iter" (iterators created)
    lstart,   \* the caller's start
    lend,     \* the caller's end
    lit,      \* the iterator structs: fwd = new(start, end), rev = new(end, start)
    llen,     \* what len() said right after new
    lout,     \* the points next() has yielded so far
    ldone,    \* next() has returned None
    \* BresenhamCircle and ThickBresenhamCircle
    cpc,      \* "idle", "args" (arguments chosen), "iter" (iterator created), "done"
    ckind,    \* the iterator: "thin" (BresenhamCircle) or "thick" (ThickBresenhamCircle)
    ccenter,  \* the argument center
    cradius,  \* the argument radius
    cit,      \* the iterator struct
    cout,     \* the points next() has yielded so far
    \* field_of_view
    fpc,      \* where the call is: "idle", "call", "checked", "rows", "cols", "post", "done"
    fmap,     \* the caller's map: width, height and the set of non-transparent points
    forigin,  \* the argument `from`
    fradius,  \* the argument `radius`
    floc,     \* the locals minx, miny, maxx, maxy, sub_width, sub_height
    fi,       \* the loop variable of the ray loops, then the number of the quadrant
    fvis,     \* `visibles` with what the call asked of the map so far
    fout,     \* how the call ended: kind "pending", "panic" or "ok", and the vector returned
    \* astar_path_fourwaygrid and astar_path
    ppc,      \* where the call is: "idle", "call", "search", "done"
    papi,     \* the function called: "grid" (astar_path_fourwaygrid), "graph" (astar_path
              \* on a FourWayGridGraph) or "custom" (astar_path on a caller's own Graph)
    pmap,     \* the caller's map: width, height and the set of unwalkable points
    pfrom,    \* the argument from (a point) or from_index (a node id)
    pto,      \* the argument to (a point) or to_index (a node id)
    pst,      \* the locals of astar_path: from_index, to_index, frontier, came_from, costs,
              \* with the points is_walkable was called with (asked) and whether an
              \* index was out of a vector (bad: the call panics there)
    psteps,   \* how many times the search loop has popped the frontier
    pout      \* how the call ended: kind "pending", "panic", "none" or "some", and the path

lineVars == <<lpc, lstart, lend, lit, llen, lout, ldone>>
circleVars == <<cpc, ckind, ccenter, cradius, cit, cout>>
fovVars == <<fpc, fmap, forigin, fradius, floc, fi, fvis, fout>>
pathVars == <<ppc, papi, pmap, pfrom, pto, pst, psteps, pout>>
vars == <<lineVars, circleVars, fovVars, pathVars>>

\* ------------------------------------------------------------------ bounds

\* Line end points are drawn from -MaxCoord..MaxCoord on both axes.
MaxCoord == 2
\* Circle centers are drawn from -MaxCenter..MaxCenter on both axes and the
\* radius from -MaxNegRadius..MaxCircleRadius.
MaxCenter == 1
MaxCircleRadius == 4
MaxNegRadius == 2
\* The maps of field_of_view are at most MaxFovWidth x MaxFovHeight, with at most
\* MaxOpaque non-transparent points, and the radius is at most MaxRadius.
MaxFovWidth == 3
MaxFovHeight == 3
MaxOpaque == 2
MaxRadius == 2
\* The maps of the path search are at most MaxPathWidth x MaxPathHeight, with at
\* most MaxWalls unwalkable points.
MaxPathWidth == 3
MaxPathHeight == 2
MaxWalls == 2

\* ----------------------------------------------------------------- helpers

Abs(n) == IF n < 0 THEN -n ELSE n
Max(a, b) == IF a >= b THEN a ELSE b
Min(a, b) == IF a <= b THEN a ELSE b

Reverse(s) == [i \in 1..Len(s) |-> s[Len(s) + 1 - i]]

\* ------------------------------------------------------- bresenham.rs: line

\* Octant::from_points
OctantFromPoints(start, end) ==
    LET dx0 == end[1] - start[1]
        dy0 == end[2] - start[2]
        neg == dy0 < 0
        dx1 == IF neg THEN -dx0 ELSE dx0
        dy1 == IF neg THEN -dy0 ELSE dy0
        o1  == IF neg THEN 4 ELSE 0
        rot == dx1 < 0
        dx2 == IF rot THEN dy1 ELSE dx1
        dy2 == IF rot THEN -dx1 ELSE dy1
        o2  == IF rot THEN o1 + 2 ELSE o1
    IN  IF dx2 < dy2 THEN o2 + 1 ELSE o2

\* Octant::point_to_octant
PointToOctant(octant, p) ==
    CASE octant = 0 -> <<p[1], p[2]>>
      [] octant = 1 -> <<p[2], p[1]>>
      [] octant = 2 -> <<p[2], -p[1]>>
      [] octant = 3 -> <<-p[1], p[2]>>
      [] octant = 4 -> <<-p[1], -p[2]>>
      [] octant = 5 -> <<-p[2], -p[1]>>
      [] octant = 6 -> <<-p[2], p[1]>>
      [] octant = 7 -> <<p[1], -p[2]>>

\* A plausible slip in next(): point_to_octant called for point_from_octant.
PointFromOctantAsTo(octant, p) == PointToOctant(octant, p)

\* Octant::point_from_octant
PointFromOctant(octant, p) ==
    CASE octant = 0 -> <<p[1], p[2]>>
      [] octant = 1 -> <<p[2], p[1]>>
      [] octant = 2 -> <<-p[2], p[1]>>
      [] octant = 3 -> <<-p[1], p[2]>>
      [] octant = 4 -> <<-p[1], -p[2]>>
      [] octant = 5 -> <<-p[2], -p[1]>>
      [] octant = 6 -> <<p[2], -p[1]>>
      [] octant = 7 -> <<p[1], -p[2]>>

\* BresenhamLine::new
BresenhamLineNew(start, end) ==
    LET octant == OctantFromPoints(start, end)
        s == PointToOctant(octant, start)
        e == PointToOctant(octant, end)
        dx == e[1] - s[1]
        dy == e[2] - s[2]
    IN  [x |-> s[1], y |-> s[2], dx |-> dx, dy |-> dy, x1 |-> e[1],
         diff |-> dy - dx, octant |-> octant]

\* A plausible slip in the guard of next(): stopping one point early.
LineExhaustedEarly(l) == l.x >= l.x1

\* BresenhamLine::next, the guard: `if self.x > self.x1 { return None; }`
LineExhausted(l) == l.x > l.x1

\* BresenhamLine::next, the point it yields
LineNextPoint(l) == PointFromOctant(l.octant, <<l.x, l.y>>)

\* A plausible slip in next(): `if self.diff > 0`.
LineNextStateStrict(l) ==
    LET up    == l.diff > 0
        y2    == IF up THEN l.y + 1 ELSE l.y
        diff2 == IF up THEN l.diff - l.dx ELSE l.diff
    IN  [l EXCEPT !.y = y2, !.diff = diff2 + l.dy, !.x = l.x + 1]

\* BresenhamLine::next, the struct after the call
LineNextState(l) ==
    LET up    == l.diff >= 0
        y2    == IF up THEN l.y + 1 ELSE l.y
        diff2 == IF up THEN l.diff - l.dx ELSE l.diff
    IN  [l EXCEPT !.y = y2, !.diff = diff2 + l.dy, !.x = l.x + 1]

\* BresenhamLine::size_hint (and len() of ExactSizeIterator)
LineSizeHint(l) == l.dx + 1

\* ThickBresenhamCircle::size_hint (and len() of ExactSizeIterator):
\* `self.radius as usize * 8`, for a radius that is not negative.
ThickSizeHint(t) == t.radius * 8

\* Collecting a line: next() until None.
RECURSIVE LineCollect(_)
LineCollect(l) ==
    IF LineExhausted(l) THEN <<>>
    ELSE <<LineNextPoint(l)>> \o LineCollect(LineNextState(l))

\* ------------------------------------------------ the line state machine

Coords == (-MaxCoord)..MaxCoord
LinePoints == Coords \X Coords
Dirs == {"fwd", "rev"}

NoLine == [x |-> 0, y |-> 0, dx |-> 0, dy |-> 0, x1 |-> 0, diff |-> 0, octant |-> 0]

LineIdle ==
    /\ lpc = "idle"
    /\ lstart = <<0, 0>>
    /\ lend = <<0, 0>>
    /\ lit = [d \in Dirs |-> NoLine]
    /\ llen = [d \in Dirs |-> 0]
    /\ lout = [d \in Dirs |-> <<>>]
    /\ ldone = [d \in Dirs |-> FALSE]

LineInit ==
    /\ lpc = "args"
    /\ lstart \in LinePoints
    /\ lend \in LinePoints
    /\ lit = [d \in Dirs |-> NoLine]
    /\ llen = [d \in Dirs |-> 0]
    /\ lout = [d \in Dirs |-> <<>>]
    /\ ldone = [d \in Dirs |-> FALSE]

\* let fwd = BresenhamLine::new(start, end); let rev = BresenhamLine::new(end, start);
\* and len() of each.
LineCreate ==
    /\ lpc = "args"
    /\ lpc' = "iter"
    /\ lit' = [d \in Dirs |-> IF d = "fwd" THEN BresenhamLineNew(lstart, lend)
                                           ELSE BresenhamLineNew(lend, lstart)]
    /\ llen' = [d \in Dirs |-> LineSizeHint(lit'[d])]
    /\ UNCHANGED <<circleVars, fovVars, pathVars, lstart, lend, lout, ldone>>

\* One call of next() on one of the two iterators that yields a point.
LineNextSome(d) ==
    /\ lpc = "iter"
    /\ ~ldone[d]
    /\ ~LineExhausted(lit[d])
    /\ lout' = [lout EXCEPT ![d] = Append(@, LineNextPoint(lit[d]))]
    /\ lit' = [lit EXCEPT ![d] = LineNextState(@)]
    /\ UNCHANGED <<circleVars, fovVars, pathVars, lpc, lstart, lend, llen, ldone>>

\* One call of next() that returns None.
LineNextNone(d) ==
    /\ lpc = "iter"
    /\ ~ldone[d]
    /\ LineExhausted(lit[d])
    /\ ldone' = [ldone EXCEPT ![d] = TRUE]
    /\ UNCHANGED <<circleVars, fovVars, pathVars, lpc, lstart, lend, lit, llen, lout>>

LineNext ==
    \/ LineCreate
    \/ \E d \in Dirs : LineNextSome(d)
    \/ \E d \in Dirs : LineNextNone(d)

\* ------------------------------------------------------ BresenhamCircle

\* BresenhamCircle::new
BresenhamCircleNew(center, radius) ==
    [center |-> center, original_radius |-> radius, radius |-> radius,
     x |-> -radius, y |-> 0, err |-> 2 - 2 * radius, current_quadrant |-> 0]

\* next() returns None.
CircleExhausted(c) == c.x >= 0

\* The point next() yields: the offset mirrored into the current quadrant.
CircleNextPoint(c) ==
    CASE c.current_quadrant = 0 -> <<c.center[1] - c.x, c.center[2] + c.y>>
      [] c.current_quadrant = 1 -> <<c.center[1] - c.y, c.center[2] - c.x>>
      [] c.current_quadrant = 2 -> <<c.center[1] + c.x, c.center[2] - c.y>>
      [] c.current_quadrant = 3 -> <<c.center[1] + c.y, c.center[2] + c.x>>

\* The two conditional steps of next(), in the order of the code: the second
\* test reads the err the first step has written.
CircleStep(c) ==
    LET r == c.err
        c1 == IF r <= c.y
              THEN [c EXCEPT !.radius = r, !.y = c.y + 1,
                             !.err = c.err + (c.y + 1) * 2 + 1]
              ELSE [c EXCEPT !.radius = r]
    IN  IF r > c1.x \/ c1.err > c1.y
        THEN [c1 EXCEPT !.x = c1.x + 1, !.err = c1.err + (c1.x + 1) * 2 + 1]
        ELSE c1

\* As CircleNextState, but never moving on to the next quadrant.
CircleNextStateOneQuadrant(c) == CircleStep(c)

\* The iterator after a next() that yields: the step, then the reset for the
\* next quadrant when the current one is finished and is not the last.
CircleNextState(c) ==
    LET c2 == CircleStep(c)
    IN  IF c2.x >= 0 /\ c2.current_quadrant < 3
        THEN [c2 EXCEPT !.current_quadrant = (c2.current_quadrant + 1) % 4,
                        !.radius = c2.original_radius,
                        !.x = -c2.original_radius,
                        !.y = 0,
                        !.err = 2 - 2 * c2.original_radius]
        ELSE c2

\* collect(): every point the iterator yields.
RECURSIVE CircleCollect(_)
CircleCollect(c) ==
    IF CircleExhausted(c) THEN <<>>
    ELSE <<CircleNextPoint(c)>> \o CircleCollect(CircleNextState(c))

\* ------------------------------------------------- ThickBresenhamCircle

\* ThickBresenhamCircle::new, with the error term of the radius 1 special
\* case left out.
ThickBresenhamCircleNewPlain(center, radius) ==
    [center |-> center, radius |-> radius, x |-> radius, y |-> 0,
     err |-> 3 - 2 * radius, moved |-> FALSE, octant |-> 0, current_step |-> 0]

\* ThickBresenhamCircle::new
ThickBresenhamCircleNew(center, radius) ==
    [center |-> center, radius |-> radius, x |-> radius, y |-> 0,
     err |-> IF radius = 1 THEN -1 ELSE 3 - 2 * radius,
     moved |-> FALSE, octant |-> 0, current_step |-> 0]

\* next() returns None: all octants of the last offset are done.
ThickExhausted(t) == t.octant = -1 /\ t.x <= t.y

\* The first part of next(): when the eight octants of an offset are done,
\* move to the next offset, by y when the last move was by x.
ThickAdvance(t) ==
    IF t.octant # -1 THEN t
    ELSE IF t.moved
         THEN [t EXCEPT !.octant = 0, !.y = t.y + 1, !.moved = FALSE,
                        !.current_step = t.current_step + 1]
         ELSE IF t.err > 0
              THEN [t EXCEPT !.octant = 0,
                             !.err = t.err + 2 * (5 - 2 * t.x + 2 * t.y),
                             !.x = t.x - 1, !.moved = TRUE,
                             !.current_step = t.current_step + 1]
              ELSE [t EXCEPT !.octant = 0,
                             !.err = t.err + 2 * (3 + 2 * t.y),
                             !.y = t.y + 1,
                             !.current_step = t.current_step + 1]

\* The offset mirrored into the octant.
ThickPoint(t) ==
    CASE t.octant = 0 -> <<t.center[1] + t.x, t.center[2] + t.y>>
      [] t.octant = 1 -> <<t.center[1] + t.y, t.center[2] + t.x>>
      [] t.octant = 2 -> <<t.center[1] - t.y, t.center[2] + t.x>>
      [] t.octant = 3 -> <<t.center[1] - t.x, t.center[2] + t.y>>
      [] t.octant = 4 -> <<t.center[1] - t.x, t.center[2] - t.y>>
      [] t.octant = 5 -> <<t.center[1] - t.y, t.center[2] - t.x>>
      [] t.octant = 6 -> <<t.center[1] + t.y, t.center[2] - t.x>>
      [] t.octant = 7 -> <<t.center[1] + t.x, t.center[2] - t.y>>

\* The point next() yields.
ThickNextPoint(t) == ThickPoint(ThickAdvance(t))

\* As ThickOctantStep, but every offset visits all eight octants.
ThickOctantStepAlwaysOne(t) == 1

\* Octants are visited two by two on the axes (y = 0) and on the diagonal
\* (x = y), where neighbouring octants mirror to the same point.
ThickOctantStep(t) == IF t.current_step = 0 \/ t.x <= t.y THEN 2 ELSE 1

\* The iterator after a next() that yields.
ThickNextState(t) ==
    LET a == ThickAdvance(t)
        step == ThickOctantStep(a)
    IN  IF a.octant + step < 8
        THEN [a EXCEPT !.octant = a.octant + step]
        ELSE [a EXCEPT !.octant = -1]

\* collect(): every point the iterator yields.
RECURSIVE ThickCollect(_)
ThickCollect(t) ==
    IF ThickExhausted(t) THEN <<>>
    ELSE <<ThickNextPoint(t)>> \o ThickCollect(ThickNextState(t))

\* --------------------------------------------- the circle state machine

Centers == ((-MaxCenter)..MaxCenter) \X ((-MaxCenter)..MaxCenter)
Radii == (-MaxNegRadius)..MaxCircleRadius
CircleKinds == {"thin", "thick"}

NoCircle == [center |-> <<0, 0>>, radius |-> 0, x |-> 0, y |-> 0, err |-> 0]

CircleIdle ==
    /\ cpc = "idle"
    /\ ckind = "thin"
    /\ ccenter = <<0, 0>>
    /\ cradius = 0
    /\ cit = NoCircle
    /\ cout = <<>>

CircleInit ==
    /\ cpc = "args"
    /\ ckind \in CircleKinds
    /\ ccenter \in Centers
    /\ cradius \in Radii
    /\ cit = NoCircle
    /\ cout = <<>>

\* let circle = BresenhamCircle::new(center, radius);
CircleCreate ==
    /\ cpc = "args"
    /\ ckind = "thin"
    /\ cpc' = "iter"
    /\ cit' = BresenhamCircleNew(ccenter, cradius)
    /\ UNCHANGED <<lineVars, fovVars, pathVars, ckind, ccenter, cradius, cout>>

\* One call of BresenhamCircle::next() that yields a point.
CircleNextSome ==
    /\ cpc = "iter"
    /\ ckind = "thin"
    /\ ~CircleExhausted(cit)
    /\ cout' = Append(cout, CircleNextPoint(cit))
    /\ cit' = CircleNextState(cit)
    /\ UNCHANGED <<lineVars, fovVars, pathVars, cpc, ckind, ccenter, cradius>>

\* One call of BresenhamCircle::next() that returns None.
CircleNextNone ==
    /\ cpc = "iter"
    /\ ckind = "thin"
    /\ CircleExhausted(cit)
    /\ cpc' = "done"
    /\ UNCHANGED <<lineVars, fovVars, pathVars, ckind, ccenter, cradius, cit, cout>>

\* let circle = ThickBresenhamCircle::new(center, radius);
ThickCreate ==
    /\ cpc = "args"
    /\ ckind = "thick"
    /\ cpc' = "iter"
    /\ cit' = ThickBresenhamCircleNew(ccenter, cradius)
    /\ UNCHANGED <<lineVars, fovVars, pathVars, ckind, ccenter, cradius, cout>>

\* One call of ThickBresenhamCircle::next() that yields a point.
ThickNextSome ==
    /\ cpc = "iter"
    /\ ckind = "thick"
    /\ ~ThickExhausted(cit)
    /\ cout' = Append(cout, ThickNextPoint(cit))
    /\ cit' = ThickNextState(cit)
    /\ UNCHANGED <<lineVars, fovVars, pathVars, cpc, ckind, ccenter, cradius>>

\* One call of ThickBresenhamCircle::next() that returns None.  The early
\* return leaves the struct as it was.
ThickNextNone ==
    /\ cpc = "iter"
    /\ ckind = "thick"
    /\ ThickExhausted(cit)
    /\ cpc' = "done"
    /\ UNCHANGED <<lineVars, fovVars, pathVars, ckind, ccenter, cradius, cit, cout>>

CircleNext ==
    \/ CircleCreate
    \/ CircleNextSome
    \/ CircleNextNone
    \/ ThickCreate
    \/ ThickNextSome
    \/ ThickNextNone

\* --------------------------------------------------------------- fov.rs

\* Map::is_transparent of the caller's map.
IsTransparent(map, x, y) == <<x, y>> \notin map.opaque

\* A plausible slip in is_out_of_bounds: the upper bounds left out.
IsOutOfBoundsNoUpper(map, x, y) == x < 0 \/ y < 0

\* is_out_of_bounds
IsOutOfBounds(map, x, y) == x < 0 \/ y < 0 \/ x >= map.width \/ y >= map.height

\* A plausible slip in field_of_view: `if radius < 0 { return vec![(x, y)]; }`
RadiusBelowZero(radius) == radius < 0

\* field_of_view: `if radius < 1 { return vec![(x, y)]; }`
RadiusBelowOne(radius) == radius < 1

\* A plausible slip in field_of_view: the box of the circle, not clipped to the map.
FovBoxUnclipped(map, x, y, radius) ==
    [minx |-> x - radius, miny |-> y - radius, maxx |-> x + radius, maxy |-> y + radius,
     sub_width |-> 2 * radius + 1, sub_height |-> 2 * radius + 1]

\* field_of_view, the clipped bounding box: minx, miny, maxx, maxy and the
\* size of the sub-rectangle.
FovBox(map, x, y, radius) ==
    LET minx == Max(x - radius, 0)
        miny == Max(y - radius, 0)
        maxx == Min(x + radius, map.width - 1)
        maxy == Min(y + radius, map.height - 1)
    IN  [minx |-> minx, miny |-> miny, maxx |-> maxx, maxy |-> maxy,
         sub_width |-> maxx - minx + 1, sub_height |-> maxy - miny + 1]

\* A plausible slip in field_of_view: `&&` for `||` in the test of the box.
FovNoAreaBoth(box) == box.maxx - box.minx = 0 /\ box.maxy - box.miny = 0

\* `if maxx - minx == 0 || maxy - miny == 0 { return vec![]; }`
FovNoArea(box) == box.maxx - box.minx = 0 \/ box.maxy - box.miny = 0

\* `visibles[index] = true`.  v holds the vector (vis), the points is_transparent
\* was called with (asked) and whether an index was out of the vector (bad: the
\* call panics there).
SetVisible(v, index) ==
    IF index \in DOMAIN v.vis
    THEN [v EXCEPT !.vis = [@ EXCEPT ![index] = TRUE]]
    ELSE [v EXCEPT !.bad = TRUE]

\* A call of map.is_transparent(x, y), recorded.
Ask(v, x, y) == [v EXCEPT !.asked = @ \cup {<<x, y>>}]

\* A plausible slip in cast_ray: the ray goes on through a non-transparent point.
RayStopsNever(map, x, y) == FALSE

\* cast_ray: `if !map.is_transparent(x + offset_x, y + offset_y) { return; }`
RayStops(map, x, y) == ~IsTransparent(map, x, y)

\* A plausible slip in cast_ray: every point of the ray is set visible.
WithinRadiusAlways(distance_square, radius_square) == TRUE

\* cast_ray: `if distance_square <= radius_square`
WithinRadius(distance_square, radius_square) == distance_square <= radius_square

\* cast_ray, the loop over the points of the line from its i-th point on.
RECURSIVE RayWalk(_, _, _, _, _, _, _, _, _)
RayWalk(map, v, width, origin, points, i, radius_square, offset_x, offset_y) ==
    IF i > Len(points) \/ v.bad THEN v
    ELSE
        LET x == points[i][1]
            y == points[i][2]
            distance_square == (x - origin[1]) * (x - origin[1])
                               + (y - origin[2]) * (y - origin[2])
            v1 == IF WithinRadius(distance_square, radius_square)
                  THEN SetVisible(v, x + y * width) ELSE v
            v2 == IF v1.bad THEN v1 ELSE Ask(v1, x + offset_x, y + offset_y)
        IN  IF v2.bad \/ RayStops(map, x + offset_x, y + offset_y) THEN v2
            ELSE RayWalk(map, v2, width, origin, points, i + 1, radius_square,
                         offset_x, offset_y)

\* A plausible slip in cast_ray: `.skip(2)` for `.skip(1)`.
CastRaySkipTwo(map, v, width, origin, destination, radius_square, offset_x, offset_y) ==
    RayWalk(map, v, width, origin, LineCollect(BresenhamLineNew(origin, destination)),
            3, radius_square, offset_x, offset_y)

\* cast_ray: the line from origin to destination, its first point skipped.
CastRay(map, v, width, origin, destination, radius_square, offset_x, offset_y) ==
    RayWalk(map, v, width, origin, LineCollect(BresenhamLineNew(origin, destination)),
            2, radius_square, offset_x, offset_y)

\* A plausible slip in post_process_vision: nothing is set visible.
PostProcessCellNothing(map, v, width, x, y, dx, dy, offset_x, offset_y) == v

\* post_process_vision, the body of the loops at (x, y).
PostProcessCell(map, v, width, x, y, dx, dy, offset_x, offset_y) ==
    LET index == x + y * width
        v1 == Ask(v, x + offset_x, y + offset_y)
        is_see_through == IsTransparent(map, x + offset_x, y + offset_y)
    IN  IF is_see_through THEN v1
        ELSE IF index \notin DOMAIN v1.vis THEN [v1 EXCEPT !.bad = TRUE]
        ELSE IF v1.vis[index] THEN v1
        ELSE
            LET neighboor_x == x + dx
                neighboor_y == y + dy
                index_0 == neighboor_x + y * width
                index_1 == x + neighboor_y * width
                v2 == Ask(v1, neighboor_x + offset_x, y + offset_y)
                t0 == IsTransparent(map, neighboor_x + offset_x, y + offset_y)
            IN  IF t0 /\ index_0 \notin DOMAIN v2.vis THEN [v2 EXCEPT !.bad = TRUE]
                ELSE IF t0 /\ v2.vis[index_0] THEN SetVisible(v2, index)
                ELSE
                    LET v3 == Ask(v2, x + offset_x, neighboor_y + offset_y)
                        t1 == IsTransparent(map, x + offset_x, neighboor_y + offset_y)
                    IN  IF t1 /\ index_1 \notin DOMAIN v3.vis
                        THEN [v3 EXCEPT !.bad = TRUE]
                        ELSE IF t1 /\ v3.vis[index_1] THEN SetVisible(v3, index)
                        ELSE v3

\* post_process_vision, the loops `for x in minx..=maxx { for y in miny..=maxy`
\* from the k-th cell on (k counts the cells in the order of the loops).
RECURSIVE PostProcessWalk(_, _, _, _, _, _, _, _, _, _, _, _)
PostProcessWalk(map, v, width, minx, miny, maxx, maxy, dx, dy, offset_x, offset_y, k) ==
    LET ny == maxy - miny + 1
        nx == maxx - minx + 1
    IN  IF nx <= 0 \/ ny <= 0 \/ k >= nx * ny \/ v.bad THEN v
        ELSE PostProcessWalk(map,
                 PostProcessCell(map, v, width, minx + (k \div ny), miny + (k % ny),
                                 dx, dy, offset_x, offset_y),
                 width, minx, miny, maxx, maxy, dx, dy, offset_x, offset_y, k + 1)

\* post_process_vision
PostProcessVision(map, v, width, minx, miny, maxx, maxy, dx, dy, offset_x, offset_y) ==
    PostProcessWalk(map, v, width, minx, miny, maxx, maxy, dx, dy, offset_x, offset_y, 0)

\* field_of_view, the four calls of post_process_vision: SE, SW, NW, NE.
PostProcessQuadrant(map, v, box, x, y, quadrant) ==
    LET ox == box.minx
        oy == box.miny
        w == box.sub_width
    IN  CASE quadrant = 0 ->
               PostProcessVision(map, v, w, x - ox + 1, y - oy + 1,
                                 box.maxx - ox, box.maxy - oy, -1, -1, ox, oy)
          [] quadrant = 1 ->
               PostProcessVision(map, v, w, box.minx - ox, y - oy + 1,
                                 x - ox - 1, box.maxy - oy, 1, -1, ox, oy)
          [] quadrant = 2 ->
               PostProcessVision(map, v, w, box.minx - ox, box.miny - oy,
                                 x - ox - 1, y - oy - 1, 1, 1, ox, oy)
          [] quadrant = 3 ->
               PostProcessVision(map, v, w, x - ox + 1, box.miny - oy,
                                 box.maxx - ox, y - oy - 1, -1, 1, ox, oy)

\* field_of_view, the vector returned: the points of the set entries of
\* visibles, in the order of their index.
RECURSIVE CollectVisibles(_, _, _, _, _)
CollectVisibles(vis, sub_width, offset_x, offset_y, index) ==
    IF index \notin DOMAIN vis THEN <<>>
    ELSE (IF vis[index]
          THEN << <<(index % sub_width) + offset_x, (index \div sub_width) + offset_y>> >>
          ELSE <<>>)
         \o CollectVisibles(vis, sub_width, offset_x, offset_y, index + 1)

\* ------------------------------------------- the field_of_view state machine

\* The subsets of S with at most n elements.
RECURSIVE SubsetsUpTo(_, _)
SubsetsUpTo(S, n) ==
    IF n = 0 THEN {{}}
    ELSE LET smaller == SubsetsUpTo(S, n - 1)
         IN  smaller \cup {T \cup {e} : T \in smaller, e \in S}

FovMaps ==
    UNION {UNION {{[width |-> w, height |-> h, opaque |-> o] :
                      o \in SubsetsUpTo((0..(w - 1)) \X (0..(h - 1)), MaxOpaque)} :
                  h \in 1..MaxFovHeight} : w \in 1..MaxFovWidth}

NoBox == [minx |-> 0, miny |-> 0, maxx |-> 0, maxy |-> 0, sub_width |-> 0, sub_height |-> 0]
NoVisibles == [vis |-> <<>>, asked |-> {}, bad |-> FALSE]
Pending == [kind |-> "pending", points |-> <<>>]
Panicked == [kind |-> "panic", points |-> <<>>]
Returned(points) == [kind |-> "ok", points |-> points]

FovIdle ==
    /\ fpc = "idle"
    /\ fmap = [width |-> 1, height |-> 1, opaque |-> {}]
    /\ forigin = <<0, 0>>
    /\ fradius = 0
    /\ floc = NoBox
    /\ fi = 0
    /\ fvis = NoVisibles
    /\ fout = Pending

\* A call field_of_view(map, from, radius); from may be one step outside the map
\* and the radius may be negative.
FovInit ==
    /\ fpc = "call"
    /\ fmap \in FovMaps
    /\ forigin \in ((-1)..fmap.width) \X ((-1)..fmap.height)
    /\ fradius \in (-1)..MaxRadius
    /\ floc = NoBox
    /\ fi = 0
    /\ fvis = NoVisibles
    /\ fout = Pending

\* assert_in_bounds(map, x, y), then `if radius < 0 { panic!(..) }`
FovCheckArgs ==
    /\ fpc = "call"
    /\ IF IsOutOfBounds(fmap, forigin[1], forigin[2]) \/ fradius < 0
       THEN fpc' = "done" /\ fout' = Panicked
       ELSE fpc' = "checked" /\ fout' = fout
    /\ UNCHANGED <<lineVars, circleVars, pathVars, fmap, forigin, fradius, floc, fi, fvis>>

\* `if radius < 1 { return vec![(x, y)]; }`
FovRadiusZero ==
    /\ fpc = "checked"
    /\ RadiusBelowOne(fradius)
    /\ fpc' = "done"
    /\ fout' = Returned(<<forigin>>)
    /\ UNCHANGED <<lineVars, circleVars, pathVars, fmap, forigin, fradius, floc, fi, fvis>>

\* The clipped box collapses: `return vec![]`.
FovReturnNoArea ==
    /\ fpc = "checked"
    /\ ~RadiusBelowOne(fradius)
    /\ FovNoArea(FovBox(fmap, forigin[1], forigin[2], fradius))
    /\ fpc' = "done"
    /\ floc' = FovBox(fmap, forigin[1], forigin[2], fradius)
    /\ fout' = Returned(<<>>)
    /\ UNCHANGED <<lineVars, circleVars, pathVars, fmap, forigin, fradius, fi, fvis>>

\* The box has an area: visibles is allocated and the origin is set visible.
FovAllocate ==
    /\ fpc = "checked"
    /\ ~RadiusBelowOne(fradius)
    /\ LET box == FovBox(fmap, forigin[1], forigin[2], fradius)
           blank == [vis |-> [index \in 0..(box.sub_width * box.sub_height - 1) |-> FALSE],
                     asked |-> {}, bad |-> FALSE]
           marked == SetVisible(blank, forigin[1] - box.minx
                                       + (forigin[2] - box.miny) * box.sub_width)
       IN  /\ ~FovNoArea(box)
           /\ floc' = box
           /\ fvis' = marked
           /\ fi' = box.minx
           /\ IF marked.bad THEN fpc' = "done" /\ fout' = Panicked
                            ELSE fpc' = "rows" /\ fout' = fout
    /\ UNCHANGED <<lineVars, circleVars, pathVars, fmap, forigin, fradius>>

\* What a step of the call that has computed v does next.
FovContinue(v, pc) ==
    /\ fvis' = v
    /\ IF v.bad THEN fpc' = "done" /\ fout' = Panicked
                ELSE fpc' = pc /\ fout' = fout

\* `for x in minx..maxx + 1`: the rays to (x, miny) and to (x, maxy).
FovRowRays ==
    /\ fpc = "rows"
    /\ fi <= floc.maxx
    /\ LET ox == floc.minx
           oy == floc.miny
           sub_origin == <<forigin[1] - ox, forigin[2] - oy>>
           r2 == fradius * fradius
           v1 == CastRay(fmap, fvis, floc.sub_width, sub_origin,
                         <<fi - ox, floc.miny - oy>>, r2, ox, oy)
           v2 == IF v1.bad THEN v1
                 ELSE CastRay(fmap, v1, floc.sub_width, sub_origin,
                              <<fi - ox, floc.maxy - oy>>, r2, ox, oy)
       IN  FovContinue(v2, "rows")
    /\ fi' = fi + 1
    /\ UNCHANGED <<lineVars, circleVars, pathVars, fmap, forigin, fradius, floc>>

\* The first loop ends.
FovRowsEnd ==
    /\ fpc = "rows"
    /\ fi > floc.maxx
    /\ fpc' = "cols"
    /\ fi' = floc.miny + 1
    /\ UNCHANGED <<lineVars, circleVars, pathVars, fmap, forigin, fradius, floc, fvis, fout>>

\* `for y in miny + 1..maxy`: the rays to (minx, y) and to (maxx, y).
FovColRays ==
    /\ fpc = "cols"
    /\ fi < floc.maxy
    /\ LET ox == floc.minx
           oy == floc.miny
           sub_origin == <<forigin[1] - ox, forigin[2] - oy>>
           r2 == fradius * fradius
           v1 == CastRay(fmap, fvis, floc.sub_width, sub_origin,
                         <<floc.minx - ox, fi - oy>>, r2, ox, oy)
           v2 == IF v1.bad THEN v1
                 ELSE CastRay(fmap, v1, floc.sub_width, sub_origin,
                              <<floc.maxx - ox, fi - oy>>, r2, ox, oy)
       IN  FovContinue(v2, "cols")
    /\ fi' = fi + 1
    /\ UNCHANGED <<lineVars, circleVars, pathVars, fmap, forigin, fradius, floc>>

\* The second loop ends.
FovColsEnd ==
    /\ fpc = "cols"
    /\ fi >= floc.maxy
    /\ fpc' = "post"
    /\ fi' = 0
    /\ UNCHANGED <<lineVars, circleVars, pathVars, fmap, forigin, fradius, floc, fvis, fout>>

\* One of the four calls of post_process_vision.
FovPostProcess ==
    /\ fpc = "post"
    /\ fi <= 3
    /\ FovContinue(PostProcessQuadrant(fmap, fvis, floc, forigin[1], forigin[2], fi),
                   "post")
    /\ fi' = fi + 1
    /\ UNCHANGED <<lineVars, circleVars, pathVars, fmap, forigin, fradius, floc>>

\* visibles.into_iter().enumerate().filter_map(..).collect()
FovCollect ==
    /\ fpc = "post"
    /\ fi > 3
    /\ fpc' = "done"
    /\ fout' = Returned(CollectVisibles(fvis.vis, floc.sub_width, floc.minx, floc.miny, 0))
    /\ UNCHANGED <<lineVars, circleVars, pathVars, fmap, forigin, fradius, floc, fi, fvis>>

FovNext ==
    \/ FovCheckArgs
    \/ FovRadiusZero
    \/ FovReturnNoArea
    \/ FovAllocate
    \/ FovRowRays
    \/ FovRowsEnd
    \/ FovColRays
    \/ FovColsEnd
    \/ FovPostProcess
    \/ FovCollect

\* -------------------------------------------------------------- path.rs

\* Option::None in came_from, costs and the cursor of reconstruct_path (node ids
\* and costs are never negative).
None == -1

\* f32 costs are counted in thousandths: 1.0 is 1000 and the nudge 0.001 is 1.
\* f32 rounds every sum to 24 bits: up to a cost of 4096 a step with the nudge
\* adds between 1.00097 and 1.00123, so that n nudges add up to between
\* 0.97 n and 1.23 n thousandths of a step.
CostUnit == 1000

\* PathMap::is_walkable of the caller's map.
IsWalkable(map, x, y) == <<x, y>> \notin map.walls

\* FourWayGridGraph::new
FourWayGridGraphNew(map) == [map |-> map, width |-> map.width, height |-> map.height]

\* FourWayGridGraph::point_to_index
PointToIndex(graph, p) == p[1] + p[2] * graph.width

\* FourWayGridGraph::index_to_point
IndexToPoint(graph, index) == <<index % graph.width, index \div graph.width>>

\* FourWayGridGraph::node_count
NodeCount(graph) == graph.width * graph.height

\* A plausible slip in cost_between: the parity test left out, every move
\* along x nudged.
CostBetweenNoParity(graph, a, b) ==
    LET p1 == IndexToPoint(graph, a)
        p2 == IndexToPoint(graph, b)
    IN  CostUnit + (IF p2[1] # p1[1] THEN 1 ELSE 0)

\* FourWayGridGraph::cost_between
CostBetween(graph, a, b) ==
    LET p1 == IndexToPoint(graph, a)
        p2 == IndexToPoint(graph, b)
        nudge == IF \/ ((p1[1] + p1[2]) % 2 = 0 /\ p2[1] # p1[1])
                    \/ ((p1[1] + p1[2]) % 2 = 1 /\ p2[2] # p1[2])
                 THEN 1 ELSE 0
    IN  CostUnit + nudge

\* FourWayGridGraph::heuristic
Heuristic(graph, a, b) ==
    LET pa == IndexToPoint(graph, a)
        pb == IndexToPoint(graph, b)
    IN  (Abs(pa[1] - pb[1]) + Abs(pa[2] - pb[2])) * CostUnit

\* A plausible slip in add_to_neighboors_if_qualified: the walkability test left out.
QualifiedInBoundsOnly(graph, p) ==
    ~(p[1] < 0 \/ p[2] < 0 \/ p[1] >= graph.width \/ p[2] >= graph.height)

\* FourWayGridGraph::neighboors, add_to_neighboors_if_qualified: whether (x, y) is pushed.
Qualified(graph, p) ==
    ~(\/ p[1] < 0 \/ p[2] < 0 \/ p[1] >= graph.width \/ p[2] >= graph.height
      \/ ~IsWalkable(graph.map, p[1], p[2]))

\* A plausible slip in add_to_neighboors_if_qualified: is_walkable is called
\* before the bounds are tested.
WalkableAskedAlways(graph, p) == {p}

\* add_to_neighboors_if_qualified: the points graph.is_walkable is called
\* with.  The `||` chain stops at the first bound that fails.
WalkableAsked(graph, p) ==
    IF p[1] < 0 \/ p[2] < 0 \/ p[1] >= graph.width \/ p[2] >= graph.height
    THEN {} ELSE {p}

\* FourWayGridGraph::neighboors: the points is_walkable is called with.
NeighboorsAsked(graph, a) ==
    LET p == IndexToPoint(graph, a)
    IN  WalkableAsked(graph, <<p[1], p[2] + 1>>) \cup WalkableAsked(graph, <<p[1], p[2] - 1>>)
        \cup WalkableAsked(graph, <<p[1] - 1, p[2]>>) \cup WalkableAsked(graph, <<p[1] + 1, p[2]>>)

\* A plausible slip in neighboors: (x + 1, y + 1) for (x + 1, y).
NeighboorsDiagonal(graph, a) ==
    LET p == IndexToPoint(graph, a)
        candidates == << <<p[1], p[2] + 1>>, <<p[1], p[2] - 1>>,
                         <<p[1] - 1, p[2]>>, <<p[1] + 1, p[2] + 1>> >>
        Push(into, q) == IF Qualified(graph, q)
                         THEN Append(into, PointToIndex(graph, q)) ELSE into
    IN  Push(Push(Push(Push(<<>>, candidates[1]), candidates[2]), candidates[3]),
             candidates[4])

\* A plausible slip in neighboors: the neighbours taken on the indices, a - 1
\* and a + 1, so that the row is not tested and the map edge wraps around.
NeighboorsWrap(graph, a) ==
    LET candidates == <<a + graph.width, a - graph.width, a - 1, a + 1>>
        Push(into, b) == IF 0 <= b /\ b < NodeCount(graph)
                            /\ Qualified(graph, IndexToPoint(graph, b))
                         THEN Append(into, b) ELSE into
    IN  Push(Push(Push(Push(<<>>, candidates[1]), candidates[2]), candidates[3]),
             candidates[4])

\* FourWayGridGraph::neighboors: the vector `into` after the call.
Neighboors(graph, a) ==
    LET p == IndexToPoint(graph, a)
        candidates == << <<p[1], p[2] + 1>>, <<p[1], p[2] - 1>>,
                         <<p[1] - 1, p[2]>>, <<p[1] + 1, p[2]>> >>
        Push(into, q) == IF Qualified(graph, q)
                         THEN Append(into, PointToIndex(graph, q)) ELSE into
    IN  Push(Push(Push(Push(<<>>, candidates[1]), candidates[2]), candidates[3]),
             candidates[4])

\* Graph::neighboors of a caller's graph written to the documentation of the
\* trait ("No need to filter the walkable ones, or the one in bounds"): the
\* ids of the four neighbours on the grid, pushed as they are.  An id below 0
\* stands for what `as usize` makes of it, a number far above node_count.
UnfilteredNeighboors(graph, a) ==
    LET p == IndexToPoint(graph, a)
    IN  << PointToIndex(graph, <<p[1], p[2] + 1>>), PointToIndex(graph, <<p[1], p[2] - 1>>),
           PointToIndex(graph, <<p[1] - 1, p[2]>>), PointToIndex(graph, <<p[1] + 1, p[2]>>) >>

\* A plausible slip in assert_in_bounds of astar_path_fourwaygrid: `x >= width` left out.
PointOutOfBoundsNoWidth(map, p) == p[1] < 0 \/ p[2] < 0 \/ p[2] >= map.height

\* A plausible slip in assert_in_bounds of astar_path_fourwaygrid: a point
\* that is not walkable refused as well.
PointOutOfBoundsOrUnwalkable(map, p) ==
    p[1] < 0 \/ p[2] < 0 \/ p[1] >= map.width \/ p[2] >= map.height
        \/ ~IsWalkable(map, p[1], p[2])

\* astar_path_fourwaygrid, assert_in_bounds: the condition of the panic.
PointOutOfBounds(map, p) ==
    p[1] < 0 \/ p[2] < 0 \/ p[1] >= map.width \/ p[2] >= map.height

\* astar_path, assert_in_bounds: the condition of the panic.
IndexOutOfBounds(graph, index) == index >= NodeCount(graph)

\* astar_path, the locals after the assertions: the frontier holds the origin
\* at cost 0, nothing has a predecessor and only the origin has a cost.
AstarStart(graph, from_index, to_index) ==
    [from_index |-> from_index,
     to_index   |-> to_index,
     frontier   |-> {[cost |-> 0, item |-> from_index]},
     came_from  |-> [n \in 0..(NodeCount(graph) - 1) |-> None],
     costs      |-> [n \in 0..(NodeCount(graph) - 1) |->
                        IF n = from_index THEN 0 ELSE None],
     to_cost    |-> 0,
     current    |-> None,
     path       |-> <<>>,
     asked      |-> {},
     bad        |-> FALSE]

\* astar_path: `costs[next_index].is_none() || new_cost < costs[next_index].unwrap()`
Relaxes(costs, next_index, new_cost) ==
    costs[next_index] = None \/ new_cost < costs[next_index]

\* A plausible slip in the relaxation: `came_from[next_index] = Some(current_index)`
\* left out.
RelaxNeighboorNoLink(graph, st, current_index, next_index) ==
    LET cost_so_far == st.costs[current_index]
        new_cost == cost_so_far + CostBetween(graph, current_index, next_index)
    IN  IF st.bad THEN st
        ELSE IF next_index \notin DOMAIN st.costs THEN [st EXCEPT !.bad = TRUE]
        ELSE IF Relaxes(st.costs, next_index, new_cost)
        THEN [st EXCEPT
                 !.frontier = @ \cup {[cost |-> new_cost
                                                + Heuristic(graph, next_index, st.to_index),
                                       item |-> next_index]},
                 !.costs[next_index] = new_cost]
        ELSE st

\* astar_path, the body of `for &next_index in neighboors.iter()`.  Nothing
\* tests next_index before `costs[next_index]`, which panics for an index
\* that is not in the vector.
RelaxNeighboor(graph, st, current_index, next_index) ==
    LET cost_so_far == st.costs[current_index]
        new_cost == cost_so_far + CostBetween(graph, current_index, next_index)
    IN  IF st.bad THEN st
        ELSE IF next_index \notin DOMAIN st.costs THEN [st EXCEPT !.bad = TRUE]
        ELSE IF Relaxes(st.costs, next_index, new_cost)
        THEN [st EXCEPT
                 !.frontier = @ \cup {[cost |-> new_cost
                                                + Heuristic(graph, next_index, st.to_index),
                                       item |-> next_index]},
                 !.came_from[next_index] = current_index,
                 !.costs[next_index] = new_cost]
        ELSE st

\* astar_path, the loop over the neighboors from the i-th on: the locals
\* after the i-th neighboor, as a value, go into the rest of the loop.
RECURSIVE RelaxAll(_, _, _, _, _)
RelaxAll(graph, st, current_index, neighboors, i) ==
    IF i > Len(neighboors) THEN st
    ELSE CHOOSE after \in
             {RelaxAll(graph, relaxed, current_index, neighboors, i + 1) :
                 relaxed \in {RelaxNeighboor(graph, st, current_index, neighboors[i])}} :
             TRUE

\* A plausible slip in Ord for State: the order not flipped, a max-heap.
PoppableMax(frontier) == {s \in frontier : \A t \in frontier : s.cost >= t.cost}

\* A plausible slip in Ord for State: a tie is no order at all, and pop gives
\* no entry while two entries of the least cost are in the heap.
PoppableUntied(frontier) ==
    {s \in frontier : \A t \in frontier \ {s} : s.cost < t.cost}

\* BinaryHeap::pop with the reversed Ord of State: an entry of the least cost.
\* Which of several entries of the same cost comes first is the heap's business.
Poppable(frontier) == {s \in frontier : \A t \in frontier : s.cost <= t.cost}

\* astar_path as a function of its arguments: one turn of the search loop or of
\* the loop of reconstruct_path on the locals r.st.  Of several frontier entries
\* of the same least cost one is taken; the costs the search ends with do not
\* depend on which.
AstarRunStep(graph, r) ==
    LET st == r.st
    IN  IF r.pc = "search"
        THEN IF st.frontier = {}
             THEN [r EXCEPT !.pc = "reconstruct", !.st.current = st.to_index]
             ELSE LET s == CHOOSE e \in Poppable(st.frontier) : TRUE
                  IN  IF s.item = st.to_index
                      THEN [r EXCEPT !.pc = "reconstruct",
                                     !.st = [st EXCEPT !.frontier = @ \ {s},
                                                       !.to_cost = s.cost,
                                                       !.current = st.to_index]]
                      ELSE [r EXCEPT !.st = RelaxAll(graph,
                                                     [st EXCEPT !.frontier = @ \ {s}],
                                                     s.item, Neighboors(graph, s.item), 1)]
        ELSE IF r.pc = "reconstruct"
        THEN IF st.current = st.from_index
             THEN [r EXCEPT !.pc = "done", !.kind = "some",
                            !.st.path = Append(@, st.from_index)]
             ELSE IF st.current = None \/ st.came_from[st.current] = None
             THEN [r EXCEPT !.pc = "done", !.kind = "none"]
             ELSE [r EXCEPT !.st.path = Append(@, st.current),
                            !.st.current = st.came_from[st.current]]
        ELSE r

\* n turns of the loops, or as many as there are up to the return: one half
\* of them after the other.
RECURSIVE AstarRunSteps(_, _, _)
AstarRunSteps(graph, r, n) ==
    IF n = 0 THEN r
    ELSE IF n = 1 THEN AstarRunStep(graph, r)
    ELSE LET half == AstarRunSteps(graph, r, n \div 2)
         IN  IF half.pc = "done" THEN half
             ELSE AstarRunSteps(graph, half, n - n \div 2)

\* More turns than the search loop takes: a node is pushed when a neighbour
\* offers it a lower cost, on a four way grid no more than 4 times, and every
\* turn pops one entry.
MaxTurns(graph) == 4 * NodeCount(graph) + 2

\* astar_path(graph, from_index, to_index) for indices in bounds, run to its
\* return: the turns of the search loop and those of reconstruct_path, one for
\* each node at most.
AstarRun(graph, from_index, to_index) ==
    AstarRunSteps(graph,
                  [pc |-> "search", kind |-> "pending",
                   st |-> AstarStart(graph, from_index, to_index)],
                  MaxTurns(graph) + NodeCount(graph) + 2)

\* --------------------------------------------------- the A* state machine

PathMaps ==
    UNION {UNION {{[width |-> w, height |-> h, walls |-> o] :
                      o \in SubsetsUpTo((0..(w - 1)) \X (0..(h - 1)), MaxWalls)} :
                  h \in 1..MaxPathHeight} : w \in 1..MaxPathWidth}

NoSearch ==
    [from_index |-> 0, to_index |-> 0, frontier |-> {}, came_from |-> <<>>,
     costs |-> <<>>, to_cost |-> 0, current |-> None, path |-> <<>>,
     asked |-> {}, bad |-> FALSE]

PathPending == [kind |-> "pending", path |-> <<>>]
PathPanicked == [kind |-> "panic", path |-> <<>>]
PathNone == [kind |-> "none", path |-> <<>>]
PathSome(path) == [kind |-> "some", path |-> path]

PathGraph == FourWayGridGraphNew(pmap)

PathIdle ==
    /\ ppc = "idle"
    /\ papi = "grid"
    /\ pmap = [width |-> 1, height |-> 1, walls |-> {}]
    /\ pfrom = <<0, 0>>
    /\ pto = <<0, 0>>
    /\ pst = NoSearch
    /\ psteps = 0
    /\ pout = PathPending

\* The graph astar_path works on: its neighboors and the points they ask the
\* map about.
PathNeighboors(a) ==
    IF papi = "custom" THEN UnfilteredNeighboors(PathGraph, a) ELSE Neighboors(PathGraph, a)
PathNeighboorsAsked(a) ==
    IF papi = "custom" THEN {} ELSE NeighboorsAsked(PathGraph, a)

\* A call astar_path_fourwaygrid(map, from, to), the points up to one step outside
\* the map, or a call astar_path(&graph, from_index, to_index), the ids up to
\* node_count, the graph a FourWayGridGraph::new(map) or a caller's graph over
\* the same grid whose neighboors does not filter.
PathInit ==
    /\ pmap \in PathMaps
    /\ papi \in {"grid", "graph", "custom"}
    /\ IF papi = "grid"
       THEN /\ ppc = "call"
            /\ pfrom \in ((-1)..pmap.width) \X ((-1)..pmap.height)
            /\ pto \in ((-1)..pmap.width) \X ((-1)..pmap.height)
       ELSE /\ ppc = "astar"
            /\ pfrom \in 0..(pmap.width * pmap.height)
            /\ pto \in 0..(pmap.width * pmap.height)
    /\ pst = NoSearch
    /\ psteps = 0
    /\ pout = PathPending

\* astar_path_fourwaygrid: assert_in_bounds(map, from); assert_in_bounds(map, to);
\* then the call of astar_path with the indices of the two points.
PathGridCall ==
    /\ ppc = "call"
    /\ papi = "grid"
    /\ IF PointOutOfBounds(pmap, pfrom) \/ PointOutOfBounds(pmap, pto)
       THEN ppc' = "done" /\ pout' = PathPanicked /\ pst' = pst
       ELSE /\ ppc' = "astar"
            /\ pout' = pout
            /\ pst' = [pst EXCEPT !.from_index = PointToIndex(PathGraph, pfrom),
                                  !.to_index = PointToIndex(PathGraph, pto)]
    /\ UNCHANGED <<lineVars, circleVars, fovVars, papi, pmap, pfrom, pto, psteps>>

\* The indices astar_path is called with.
AstarFrom == IF papi = "grid" THEN pst.from_index ELSE pfrom
AstarTo == IF papi = "grid" THEN pst.to_index ELSE pto

\* astar_path: assert_in_bounds(graph, from_index); assert_in_bounds(graph, to_index);
\* then the frontier, came_from and costs are set up.
PathAstarCall ==
    /\ ppc = "astar"
    /\ IF IndexOutOfBounds(PathGraph, AstarFrom) \/ IndexOutOfBounds(PathGraph, AstarTo)
       THEN ppc' = "done" /\ pout' = PathPanicked /\ pst' = pst
       ELSE /\ ppc' = "search"
            /\ pout' = pout
            /\ pst' = AstarStart(PathGraph, AstarFrom, AstarTo)
    /\ UNCHANGED <<lineVars, circleVars, fovVars, papi, pmap, pfrom, pto, psteps>>

\* One turn of `while let Some(State { .. }) = frontier.pop()` that pops the
\* destination: `to_cost = current_cost; break;`
PathPopGoal ==
    /\ ppc = "search"
    /\ \E s \in Poppable(pst.frontier) :
          /\ s.item = pst.to_index
          /\ pst' = [pst EXCEPT !.frontier = @ \ {s}, !.to_cost = s.cost,
                                !.current = pst.to_index]
    /\ ppc' = "reconstruct"
    /\ psteps' = psteps + 1
    /\ UNCHANGED <<lineVars, circleVars, fovVars, papi, pmap, pfrom, pto, pout>>

\* One turn of the loop that pops another node and relaxes its neighboors.
PathExpand ==
    /\ ppc = "search"
    /\ \E s \in Poppable(pst.frontier) :
          /\ s.item # pst.to_index
          /\ pst' = RelaxAll(PathGraph,
                             [pst EXCEPT !.frontier = @ \ {s},
                                         !.asked = @ \cup PathNeighboorsAsked(s.item)],
                             s.item, PathNeighboors(s.item), 1)
    /\ IF pst'.bad THEN ppc' = "done" /\ pout' = PathPanicked
                   ELSE ppc' = ppc /\ pout' = pout
    /\ psteps' = psteps + 1
    /\ UNCHANGED <<lineVars, circleVars, fovVars, papi, pmap, pfrom, pto>>

\* frontier.pop() returns None: the loop ends and reconstruct_path is called.
PathFrontierEmpty ==
    /\ ppc = "search"
    /\ pst.frontier = {}
    /\ ppc' = "reconstruct"
    /\ pst' = [pst EXCEPT !.current = pst.to_index]
    /\ UNCHANGED <<lineVars, circleVars, fovVars, papi, pmap, pfrom, pto, psteps, pout>>

\* reconstruct_path, one turn of `while current != Some(target_index)`: the
\* position is pushed and its predecessor taken.
PathWalkBack ==
    /\ ppc = "reconstruct"
    /\ pst.current # pst.from_index
    /\ pst.current # None
    /\ pst.came_from[pst.current] # None
    /\ pst' = [pst EXCEPT !.path = Append(@, pst.current),
                          !.current = pst.came_from[pst.current]]
    /\ UNCHANGED <<lineVars, circleVars, fovVars, ppc, papi, pmap, pfrom, pto, psteps, pout>>

\* reconstruct_path, a turn of the loop that finds no predecessor: `return None`.
PathReturnNone ==
    /\ ppc = "reconstruct"
    /\ pst.current # pst.from_index
    /\ (pst.current = None \/ pst.came_from[pst.current] = None)
    /\ ppc' = "done"
    /\ pout' = PathNone
    /\ pst' = IF pst.current = None THEN pst
              ELSE [pst EXCEPT !.path = Append(@, pst.current)]
    /\ UNCHANGED <<lineVars, circleVars, fovVars, papi, pmap, pfrom, pto, psteps>>

\* reconstruct_path, the loop ends: the origin is pushed and the path reversed;
\* astar_path_fourwaygrid maps the indices to points.
PathReturnSome ==
    /\ ppc = "reconstruct"
    /\ pst.current = pst.from_index
    /\ ppc' = "done"
    /\ pst' = [pst EXCEPT !.path = Append(@, pst.from_index)]
    /\ LET indices == Reverse(pst'.path)
       IN  pout' = PathSome(IF papi = "grid"
                            THEN [k \in 1..Len(indices) |->
                                     IndexToPoint(PathGraph, indices[k])]
                            ELSE indices)
    /\ UNCHANGED <<lineVars, circleVars, fovVars, papi, pmap, pfrom, pto, psteps>>

\* The caller comes to its call astar_path_fourwaygrid(map, from, to), with
\* both points inside the map.
PathGridStart ==
    /\ ppc = "idle"
    /\ ppc' = "call"
    /\ papi' = "grid"
    /\ pmap' \in PathMaps
    /\ pfrom' \in (0..(pmap'.width - 1)) \X (0..(pmap'.height - 1))
    /\ pto' \in (0..(pmap'.width - 1)) \X (0..(pmap'.height - 1))
    /\ UNCHANGED <<lineVars, circleVars, fovVars, pst, psteps, pout>>

PathNext ==
    \/ PathGridCall
    \/ PathAstarCall
    \/ PathPopGoal
    \/ PathExpand
    \/ PathFrontierEmpty
    \/ PathWalkBack
    \/ PathReturnNone
    \/ PathReturnSome

\* ------------------------------------------------- a long map with two lanes

\* A map of two walled lanes between the same two cells.  Both lanes are
\* zigzags of single steps, LaneHeight up and LaneHeight down, LongPeriods
\* times; the lower lane is the mirror image of the upper one, moved by one
\* column and 2 steps longer.
LaneHeight == 2
LongPeriods == 300
LanePeriod == 2 * LaneHeight + 4

\* The heights above its base row that a lane takes in the c-th column of a
\* period: up by steps, LaneHeight high for three columns, down by steps.
LaneRows(c) ==
    IF c = 0 \/ c = LanePeriod - 1 THEN {0}
    ELSE IF c <= LaneHeight THEN {c - 1, c}
    ELSE IF c <= LaneHeight + 2 THEN {LaneHeight}
    ELSE {LanePeriod - 1 - c, LanePeriod - 2 - c}

\* The columns where the zigzags begin: the upper one on a cell of even
\* x + y, the lower one on a cell of odd x + y.
UpperStart == IF LaneHeight % 2 = 0 THEN 2 ELSE 1
LowerStart == IF LaneHeight % 2 = 0 THEN 1 ELSE 2

LongWidth == LanePeriod * LongPeriods + 4
LongHeight == 2 * LaneHeight + 3

\* Whether a lane that begins in column start takes the height up in column x.
InLane(start, x, up) ==
    IF x < start \/ x >= start + LanePeriod * LongPeriods
    THEN up = 0
    ELSE up \in LaneRows((x - start) % LanePeriod)

LongWalkable ==
    {c \in (0..(LongWidth - 1)) \X (0..(LongHeight - 1)) :
        \/ (c[1] \in {0, LongWidth - 1} /\ c[2] \in LaneHeight..(LaneHeight + 2))
        \/ (c[2] <= LaneHeight /\ InLane(UpperStart, c[1], LaneHeight - c[2]))
        \/ (c[2] >= LaneHeight + 2 /\ InLane(LowerStart, c[1], c[2] - LaneHeight - 2))}

LongMap ==
    [width |-> LongWidth, height |-> LongHeight,
     walls |-> ((0..(LongWidth - 1)) \X (0..(LongHeight - 1))) \ LongWalkable]

\* The two ends of the lanes, and a cell walled in on all sides.
LongFrom == <<0, LaneHeight>>
LongTo == <<LongWidth - 1, LaneHeight + 1>>
LongIsolated == <<UpperStart + LaneHeight + 1, LaneHeight>>

\* A call astar_path_fourwaygrid(map, from, to) on the long map, from one end
\* of the lanes or from the walled-in cell to the other end of the lanes.
PathLongInit ==
    /\ pmap = LongMap
    /\ papi = "grid"
    /\ ppc = "call"
    /\ pfrom \in {LongFrom, LongIsolated}
    /\ pto = LongTo
    /\ pst = NoSearch
    /\ psteps = 0
    /\ pout = PathPending

\* ---------------------------------------------------------- specifications

\* The line iterators alone.
InitLine == LineInit /\ CircleIdle /\ FovIdle /\ PathIdle
SpecLine == InitLine /\ [][LineNext]_vars

\* One of the two circle iterators alone.
InitCircle == CircleInit /\ LineIdle /\ FovIdle /\ PathIdle
SpecCircle == InitCircle /\ [][CircleNext]_vars

\* One call of field_of_view.
InitFov == FovInit /\ LineIdle /\ CircleIdle /\ PathIdle
SpecFov == InitFov /\ [][FovNext]_vars

\* One call of astar_path_fourwaygrid or of astar_path.
InitPath == PathInit /\ LineIdle /\ CircleIdle /\ FovIdle
SpecPath == InitPath /\ [][PathNext]_vars

\* The path search on the long map.
InitPathLong == PathLongInit /\ LineIdle /\ CircleIdle /\ FovIdle
SpecPathLong == InitPathLong /\ [][PathNext]_vars

\* A thread that calls astar_path_fourwaygrid(map, from, to) with both points
\* inside the map and is not stopped: a step that can be taken is taken.
InitGridCall == PathIdle /\ LineIdle /\ CircleIdle /\ FovIdle
GridCallNext == PathGridStart \/ PathNext
SpecGridCall == InitGridCall /\ [][GridCallNext]_vars /\ WF_vars(GridCallNext)

\* Any one of the four.
Init == InitLine \/ InitCircle \/ InitFov \/ InitPath
Next == LineNext \/ CircleNext \/ FovNext \/ PathNext
Spec == Init /\ [][Next]_vars

\* ------------------------------------------------------------------ claims

LineDx == lend[1] - lstart[1]
LineDy == lend[2] - lstart[2]
LineLength == Max(Abs(LineDx), Abs(LineDy)) + 1

\* C1: BresenhamLine::new(start, end) yields a sequence that begins with
\* start, ends with end and has max(|dx|, |dy|) + 1 points (one point when
\* start = end), and len() at creation reports that number.
C1_LineEndsAndLength ==
    /\ lpc = "iter" => llen["fwd"] = LineLength
    /\ Len(lout["fwd"]) >= 1 => lout["fwd"][1] = lstart
    /\ Len(lout["fwd"]) <= LineLength
    /\ ldone["fwd"] =>
          /\ Len(lout["fwd"]) = LineLength
          /\ lout["fwd"][LineLength] = lend
          /\ (lstart = lend => lout["fwd"] = <<lstart>>)

\* A steep line going left and down has been collected to its end.
C1_Witness ==
    /\ ldone["fwd"]
    /\ LineDx = -1
    /\ LineDy = -2
    /\ Len(lout["fwd"]) = 3

\* C2 as stated: the points of new(end, start) are those of new(start, end)
\* in reverse order.
C2_ReverseIsReversed ==
    (ldone["fwd"] /\ ldone["rev"]) => lout["rev"] = Reverse(lout["fwd"])

LineStraight == LineDx = 0 \/ LineDy = 0 \/ Abs(LineDx) = Abs(LineDy)

\* C2, amended: new(end, start) yields as many points as new(start, end), from
\* end to start, and its k-th point is the k-th point of the reversed sequence
\* of new(start, end) or the point next to it across the line (one step along
\* the minor axis); the two are the reverse of each other exactly when the
\* line is horizontal, vertical or diagonal.
C2_ReverseUpToOneStep ==
    (ldone["fwd"] /\ ldone["rev"]) =>
        LET back == Reverse(lout["fwd"])
            rev  == lout["rev"]
        IN  /\ Len(rev) = Len(back)
            /\ rev[1] = lend
            /\ rev[Len(rev)] = lstart
            /\ \A k \in 1..Len(rev) :
                  /\ Abs(rev[k][1] - back[k][1]) + Abs(rev[k][2] - back[k][2]) <= 1
                  /\ Abs(LineDx) > Abs(LineDy) => rev[k][1] = back[k][1]
                  /\ Abs(LineDy) > Abs(LineDx) => rev[k][2] = back[k][2]
            /\ (rev = back) <=> LineStraight

\* Both directions of a line that is neither straight nor diagonal are collected,
\* and they differ.
C2_Witness ==
    /\ ldone["fwd"] /\ ldone["rev"]
    /\ LineDx = 2
    /\ LineDy = 1
    /\ lout["rev"] # Reverse(lout["fwd"])

Range(s) == {s[i] : i \in DOMAIN s}

FovOriginInMap ==
    /\ 0 <= forigin[1] /\ forigin[1] < fmap.width
    /\ 0 <= forigin[2] /\ forigin[2] < fmap.height

FovArgsValid == FovOriginInMap /\ fradius >= 0

\* C3 as stated: for an in-bounds origin and a radius >= 0, the collection
\* field_of_view returns contains the origin.
C3_OriginIsReturned ==
    (fpc = "done" /\ fout.kind = "ok") => forigin \in Range(fout.points)

\* C4: every point field_of_view returns is inside the map, also when the
\* circle of the radius reaches past the edges of the map.
C4_ResultInBounds ==
    (fpc = "done" /\ fout.kind = "ok") =>
        \A p \in Range(fout.points) :
            0 <= p[1] /\ p[1] < fmap.width /\ 0 <= p[2] /\ p[2] < fmap.height

\* A call from a corner of a 3 x 3 map with radius 2 has returned several points.
C4_Witness ==
    /\ fpc = "done"
    /\ fout.kind = "ok"
    /\ fmap.width = 3 /\ fmap.height = 3
    /\ forigin = <<2, 2>>
    /\ fradius = 2
    /\ Len(fout.points) >= 4

\* The cells of S and the walkable cells of the map one orthogonal move from a
\* cell of S.
ReachStep(map, S) ==
    S \cup {r : r \in {q \in (0..(map.width - 1)) \X (0..(map.height - 1)) :
               /\ q \notin map.walls
               /\ \E p \in S : Abs(p[1] - q[1]) + Abs(p[2] - q[2]) = 1}}

\* The reflexive and transitive closure of "one orthogonal move into a walkable
\* cell of the map", from the cells of S.
RECURSIVE ReachableSet(_, _)
ReachableSet(map, S) ==
    LET T == ReachStep(map, S)
    IN  IF T = S THEN S ELSE ReachableSet(map, T)

PathGridReturned == ppc = "done" /\ papi = "grid" /\ pout.kind # "panic"

\* C5: astar_path_fourwaygrid returns a path exactly when to is reached from
\* from by a chain of orthogonal moves, each into a walkable cell of the map
\* (no move when from = to), and None otherwise.
C5_PathIffReachable ==
    PathGridReturned =>
        /\ pout.kind \in {"some", "none"}
        /\ (pout.kind = "some") <=> (pto \in ReachableSet(pmap, {pfrom}))

\* None is returned for two walkable cells that a wall separates.
C5_Witness ==
    /\ PathGridReturned
    /\ pout.kind = "none"
    /\ pfrom \notin pmap.walls
    /\ pto \notin pmap.walls
    /\ psteps >= 2

\* C6: a path astar_path_fourwaygrid returns begins with from, ends with to,
\* moves by one orthogonal step between consecutive points, and every point
\* after the first is inside the map and walkable.
C6_PathIsAWalk ==
    (PathGridReturned /\ pout.kind = "some") =>
        LET path == pout.path
        IN  /\ Len(path) >= 1
            /\ path[1] = pfrom
            /\ path[Len(path)] = pto
            /\ \A k \in 1..(Len(path) - 1) :
                  Abs(path[k + 1][1] - path[k][1]) + Abs(path[k + 1][2] - path[k][2]) = 1
            /\ \A k \in 2..Len(path) :
                  /\ 0 <= path[k][1] /\ path[k][1] < pmap.width
                  /\ 0 <= path[k][2] /\ path[k][2] < pmap.height
                  /\ path[k] \notin pmap.walls

\* A path of five points around a wall has been returned.
C6_Witness ==
    /\ PathGridReturned
    /\ pout.kind = "some"
    /\ Len(pout.path) = 5
    /\ pmap.walls # {}

Manhattan(p, q) == Abs(p[1] - q[1]) + Abs(p[2] - q[2])

\* C7: on a map where every cell is walkable, astar_path_fourwaygrid returns a
\* path of Manhattan distance + 1 points, from from to to.
C7_OpenGridPathLength ==
    (PathGridReturned /\ pmap.walls = {}) =>
        /\ pout.kind = "some"
        /\ Len(pout.path) = Manhattan(pfrom, pto) + 1
        /\ pout.path[1] = pfrom
        /\ pout.path[Len(pout.path)] = pto

\* A path between opposite corners of the open 3 x 2 map has been returned.
C7_Witness ==
    /\ PathGridReturned
    /\ pmap = [width |-> 3, height |-> 2, walls |-> {}]
    /\ pfrom = <<2, 1>>
    /\ pto = <<0, 0>>
    /\ Len(pout.path) = 4

InPathMap(p) ==
    0 <= p[1] /\ p[1] < pmap.width /\ 0 <= p[2] /\ p[2] < pmap.height

PathArgsInvalid ==
    IF papi = "grid"
    THEN ~InPathMap(pfrom) \/ ~InPathMap(pto)
    ELSE pfrom >= pmap.width * pmap.height \/ pto >= pmap.width * pmap.height

\* C8: astar_path with from_index or to_index >= node_count, and
\* astar_path_fourwaygrid with from or to outside the map, panic, and they do
\* so before the search has set up or popped its frontier.
C8_InvalidArgsPanicFirst ==
    PathArgsInvalid =>
        /\ ppc \in {"call", "astar", "done"}
        /\ papi = "grid" => ppc # "astar"
        /\ ppc = "done" => pout.kind = "panic"
        /\ psteps = 0
        /\ pst = NoSearch

\* astar_path has panicked on a to_index equal to node_count.
C8_Witness ==
    /\ papi = "graph"
    /\ ppc = "done"
    /\ pout.kind = "panic"
    /\ pfrom = 0
    /\ pto = pmap.width * pmap.height

\* C9: field_of_view panics when the origin is outside the map and when the
\* radius is negative, and has computed nothing then: no box, no visibles,
\* no call of the map.
C9_InvalidArgsPanic ==
    (~FovArgsValid /\ fpc # "call") =>
        /\ fpc = "done"
        /\ fout.kind = "panic"
        /\ floc = NoBox
        /\ fvis = NoVisibles

\* field_of_view has panicked on a negative radius with the origin inside the map.
C9_Witness ==
    /\ fpc = "done"
    /\ fout.kind = "panic"
    /\ fradius < 0
    /\ FovOriginInMap

\* C10: with an in-bounds origin and radius 0, field_of_view returns the
\* vector that holds the origin and nothing else, whatever the map.
C10_RadiusZeroIsOrigin ==
    (FovArgsValid /\ fradius = 0 /\ fpc = "done") => fout = Returned(<<forigin>>)

\* field_of_view with radius 0 has returned from a non-transparent origin next
\* to another non-transparent point.
C10_Witness ==
    /\ fpc = "done"
    /\ fradius = 0
    /\ fout.kind = "ok"
    /\ forigin \in fmap.opaque
    /\ Cardinality(fmap.opaque) = 2

\* ---- circles

CircleDone(kind) == cpc = "done" /\ ckind = kind

\* The eight cells around the center.
UnitSquare(center) ==
    {<<center[1] + dx, center[2] + dy>> : dx \in -1..1, dy \in -1..1} \ {center}

\* C11: a ThickBresenhamCircle of radius >= 2 yields exactly 8 x radius
\* points (never more while it runs, exactly that many when next() returns
\* None), and one of radius 1 yields exactly the 8 cells around the center.
C11_ThickCircleSize ==
    (ckind = "thick" /\ cradius >= 1 /\ cpc \in {"iter", "done"}) =>
        /\ Len(cout) <= 8 * cradius
        /\ cpc = "done" => Len(cout) = 8 * cradius
        /\ (cpc = "done" /\ cradius = 1) =>
               /\ Len(cout) = 8
               /\ Range(cout) = UnitSquare(ccenter)

\* A thick circle of radius 3 or more around a center other than (0,0) has
\* run to its end.
C11_Witness ==
    /\ CircleDone("thick")
    /\ ccenter # <<0, 0>>
    /\ cradius >= 3
    /\ Len(cout) = 8 * cradius

\* The position of a point around ccenter: points above the x axis, or on
\* its positive half, come first, and within a half a point is before
\* another when the turn from the one to the other is counterclockwise.
UpperHalf(p) ==
    \/ p[2] - ccenter[2] > 0
    \/ (p[2] - ccenter[2] = 0 /\ p[1] - ccenter[1] > 0)

Cross(p, q) ==
    (p[1] - ccenter[1]) * (q[2] - ccenter[2]) - (p[2] - ccenter[2]) * (q[1] - ccenter[1])

AngleBefore(p, q) ==
    IF UpperHalf(p) # UpperHalf(q) THEN UpperHalf(p) ELSE Cross(p, q) > 0

\* The point that follows p around the circumference, the first one
\* following the last.
RingNext(S, p) ==
    IF \E q \in S : AngleBefore(p, q)
    THEN CHOOSE q \in S :
             /\ AngleBefore(p, q)
             /\ \A r \in S : AngleBefore(p, r) => (r = q \/ AngleBefore(q, r))
    ELSE CHOOSE q \in S : \A r \in S \ {q} : AngleBefore(q, r)

\* C12: the points of a ThickBresenhamCircle of radius >= 1 are distinct
\* and, taken in order around the center, each one and the one that follows
\* it (the first following the last) are one step apart along one axis.
C12_ThickCircleIsRing ==
    (CircleDone("thick") /\ cradius >= 1) =>
        LET S == Range(cout)
        IN  /\ Cardinality(S) = Len(cout)
            /\ \A p \in S : Manhattan(p, RingNext(S, p)) = 1

\* A thick circle of radius 2 or more has run to its end, and some point of
\* it lies on neither axis nor diagonal.
C12_Witness ==
    /\ CircleDone("thick")
    /\ cradius >= 2
    /\ ccenter # <<0, 0>>
    /\ \E p \in Range(cout) :
           /\ p[1] # ccenter[1]
           /\ p[2] # ccenter[2]
           /\ Abs(p[1] - ccenter[1]) # Abs(p[2] - ccenter[2])

\* p turned by 90 degrees about the center: offset (dx, dy) becomes (-dy, dx).
Rotate(center, p) ==
    <<center[1] - (p[2] - center[2]), center[2] + (p[1] - center[1])>>

\* C13: a BresenhamCircle of radius >= 1 yields four blocks of the same
\* length, each the previous one turned by 90 degrees about the center, and
\* ends after the fourth; around (0,0) with radius 2 it yields the twelve
\* points of the documentation in that order.
C13_ThinCircleQuadrants ==
    (CircleDone("thin") /\ cradius >= 1) =>
        LET n == Len(cout) \div 4
        IN  /\ n >= 1
            /\ Len(cout) = 4 * n
            /\ \A k \in 1..(3 * n) : cout[k + n] = Rotate(ccenter, cout[k])
            /\ cit.current_quadrant = 3
            /\ (ccenter = <<0, 0>> /\ cradius = 2) =>
                   cout = << <<2, 0>>, <<2, 1>>, <<1, 2>>,
                             <<0, 2>>, <<-1, 2>>, <<-2, 1>>,
                             <<-2, 0>>, <<-2, -1>>, <<-1, -2>>,
                             <<0, -2>>, <<1, -2>>, <<2, -1>> >>

\* A thin circle of radius 3 or more, with blocks of more than three
\* points, has run to its end around a center other than (0,0).
C13_Witness ==
    /\ CircleDone("thin")
    /\ cradius >= 3
    /\ ccenter # <<0, 0>>
    /\ Len(cout) >= 16

\* C18: with a negative radius each circle iterator yields what it yields
\* for radius 0 (neither new() nor next() rejects a radius).
C18_NegativeRadiusAsZero ==
    (cpc = "done" /\ cradius < 0) =>
        cout = IF ckind = "thin"
               THEN CircleCollect(BresenhamCircleNew(ccenter, 0))
               ELSE ThickCollect(ThickBresenhamCircleNew(ccenter, 0))

\* ---- field of view, continued

\* The call has returned a vector, for an origin in the map and a radius >= 1.
FovReturned == fpc = "done" /\ fout.kind = "ok" /\ FovOriginInMap /\ fradius >= 1

\* The bounding box of the circle, clipped to the map.
ClipMinX == Max(forigin[1] - fradius, 0)
ClipMinY == Max(forigin[2] - fradius, 0)
ClipMaxX == Min(forigin[1] + fradius, fmap.width - 1)
ClipMaxY == Min(forigin[2] + fradius, fmap.height - 1)
ClipBox == (ClipMinX..ClipMaxX) \X (ClipMinY..ClipMaxY)
ClipCollapsed == ClipMinX = ClipMaxX \/ ClipMinY = ClipMaxY

\* The points on the border of the clipped box.
ClipBorder ==
    {p \in ClipBox : p[1] \in {ClipMinX, ClipMaxX} \/ p[2] \in {ClipMinY, ClipMaxY}}

Opaque(p) == p \in fmap.opaque
DistanceSquare(p) ==
    (p[1] - forigin[1]) * (p[1] - forigin[1]) + (p[2] - forigin[2]) * (p[2] - forigin[2])

\* The line from the origin to t, in map coordinates.
RayTo(t) == LineCollect(BresenhamLineNew(forigin, t))

\* The points of a ray past the origin that nothing non-transparent on the
\* ray precedes, as long as the ray stays in the box.
ClearPart(ray, box) ==
    {ray[k] : k \in {i \in 2..Len(ray) :
                        /\ \A j \in 2..i : ray[j] \in box
                        /\ \A j \in 2..(i - 1) : ~Opaque(ray[j])}}

\* The points that lie past the origin on a ray to one of the targets, all
\* points of the ray strictly between the origin and them transparent.
OnClearRays(targets, box) ==
    UNION {ClearPart(ray, box) : ray \in {RayTo(t) : t \in targets}}

\* What the rays to the border of the clipped box set visible.
RayLit ==
    {forigin} \cup {p \in OnClearRays(ClipBorder, ClipBox) :
                       DistanceSquare(p) <= fradius * fradius}

Sign(n) == IF n > 0 THEN 1 ELSE IF n < 0 THEN -1 ELSE 0

\* The two neighbours of p on the side of the origin.
TowardsOrigin(p) ==
    {<<p[1] + Sign(forigin[1] - p[1]), p[2]>>, <<p[1], p[2] + Sign(forigin[2] - p[2])>>}

\* What post_process_vision adds: the non-transparent points off the row and
\* the column of the origin that a transparent visible neighbour on the side
\* of the origin lights.
PostLit(seen) ==
    {p \in ClipBox : /\ Opaque(p)
                     /\ p \notin seen
                     /\ p[1] # forigin[1]
                     /\ p[2] # forigin[2]
                     /\ \E q \in TowardsOrigin(p) : ~Opaque(q) /\ q \in seen}

\* What the description of the spec computes: the origin, and the points
\* walked on the lines to the points of the thick circle, each ray ending
\* when it leaves the clipped box or after a non-transparent point.
ThickTargets == Range(ThickCollect(ThickBresenhamCircleNew(forigin, fradius)))

ThickLit == {forigin} \cup OnClearRays(ThickTargets, ClipBox)

C16_OpenMapWithinCircle ==
    (fpc = "done" /\ fout.kind = "ok" /\ fmap.opaque = {}) =>
        \A p \in Range(fout.points) :
            /\ DistanceSquare(p) <= fradius * fradius
            /\ p \in ClipBox

\* A call on an open map has returned several points and left out a point of
\* the clipped box that is beyond the radius.
C16_Witness ==
    /\ FovReturned
    /\ fmap.opaque = {}
    /\ Len(fout.points) >= 5
    /\ \E p \in ClipBox : DistanceSquare(p) > fradius * fradius

\* C20 as stated: every returned point but the origin is on a cast ray,
\* nothing non-transparent between the origin and it.
C20_ResultOnClearRays ==
    FovReturned =>
        Range(fout.points) \ {forigin} \subseteq OnClearRays(ClipBorder, ClipBox)

\* C20, amended: every returned transparent point but the origin is within
\* the radius on a cast ray with nothing non-transparent between the origin
\* and it; a returned non-transparent point is such a point too, or it is
\* off the row and the column of the origin and has a returned transparent
\* neighbour on the side of the origin.
C20_ClearRayOrLitByNeighbour ==
    FovReturned =>
        LET clear == OnClearRays(ClipBorder, ClipBox)
            returned == Range(fout.points)
        IN  \A p \in returned \ {forigin} :
            \/ (DistanceSquare(p) <= fradius * fradius /\ p \in clear)
            \/ /\ Opaque(p)
               /\ p[1] # forigin[1]
               /\ p[2] # forigin[2]
               /\ \E q \in TowardsOrigin(p) : ~Opaque(q) /\ q \in returned

\* A call has returned a non-transparent point that no clear ray reaches, and
\* has not returned a transparent point that lies behind a non-transparent one.
C20_Witness ==
    /\ FovReturned
    /\ \E p \in Range(fout.points) \ OnClearRays(ClipBorder, ClipBox) : Opaque(p)
    /\ \E p \in ClipBox : /\ ~Opaque(p)
                          /\ DistanceSquare(p) <= fradius * fradius
                          /\ p \notin Range(fout.points)

\* ---- path search, continued

\* A call astar_path on the caller's unfiltering graph, both ids in the graph.
CustomCall ==
    /\ papi = "custom"
    /\ pfrom \in 0..(pmap.width * pmap.height - 1)
    /\ pto \in 0..(pmap.width * pmap.height - 1)

\* C17: on a graph whose neighboors pushes ids that are not valid, astar_path
\* with valid from_index and to_index does not fail: it returns Some or None.
C17_InvalidNeighboorsFiltered ==
    (CustomCall /\ ppc = "done") => pout.kind \in {"none", "some"}

\* C19: field_of_view calls is_transparent, and astar_path_fourwaygrid calls
\* is_walkable, only with points of the map, and no index is ever outside
\* visibles.
C19_MapAskedInBounds ==
    /\ \A p \in fvis.asked : /\ 0 <= p[1] /\ p[1] < fmap.width
                             /\ 0 <= p[2] /\ p[2] < fmap.height
    /\ ~fvis.bad
    /\ papi = "grid" =>
           \A p \in pst.asked : /\ 0 <= p[1] /\ p[1] < pmap.width
                                /\ 0 <= p[2] /\ p[2] < pmap.height

\* A call of field_of_view from the corner of a map with non-transparent
\* points has returned after asking about six points or more, the rays and
\* the post-processing having run along two edges of the map.
C19_Witness ==
    /\ fpc = "done"
    /\ fout.kind = "ok"
    /\ forigin = <<0, 0>>
    /\ fradius >= 2
    /\ fmap.opaque # {}
    /\ Cardinality(fvis.asked) >= 6

\* C21: every point field_of_view returns, whatever the map, is within the
\* radius of the origin.
C21_ResultWithinRadius ==
    (fpc = "done" /\ fout.kind = "ok" /\ FovArgsValid) =>
        \A p \in Range(fout.points) : DistanceSquare(p) <= fradius * fradius

\* The cells of the map within the radius of the origin.
Disc ==
    {p \in (0..(fmap.width - 1)) \X (0..(fmap.height - 1)) :
        DistanceSquare(p) <= fradius * fradius}

\* C29: on a map without non-transparent points, at least 2 wide and 2 high,
\* field_of_view with a radius >= 1 returns exactly the cells of the map
\* within the radius of the origin.
C29_OpenMapIsDisc ==
    (FovReturned /\ fmap.opaque = {} /\ fmap.width >= 2 /\ fmap.height >= 2) =>
        Range(fout.points) = Disc

\* A call on an open map from a corner, the box clipped on two sides, has
\* returned some but not all cells of the map.
C29_Witness ==
    /\ FovReturned
    /\ fmap.opaque = {}
    /\ fmap.width >= 3
    /\ fmap.height >= 3
    /\ forigin = <<0, 0>>
    /\ fradius >= 2
    /\ Len(fout.points) >= 6
    /\ Len(fout.points) < fmap.width * fmap.height

\* ---- lines and circles, continued

\* The arguments of new() for the iterator d.
LineFrom(d) == IF d = "fwd" THEN lstart ELSE lend
LineTo(d) == IF d = "fwd" THEN lend ELSE lstart

\* From p to q the line has gone one step towards the end along the dominant
\* axis and no step or one step towards the end along the other.
OneStepTowards(from, to, p, q) ==
    LET dx == to[1] - from[1]
        dy == to[2] - from[2]
    IN  IF Abs(dx) >= Abs(dy)
        THEN /\ q[1] - p[1] = Sign(dx)
             /\ q[2] - p[2] \in {0, Sign(dy)}
        ELSE /\ q[2] - p[2] = Sign(dy)
             /\ q[1] - p[1] \in {0, Sign(dx)}

\* C23: between two consecutive points of a BresenhamLine the coordinate
\* along the dominant axis changes by exactly 1 towards the end and the
\* other one by 0 or by 1 towards the end.
C23_LineHasNoGap ==
    \A d \in Dirs : \A i \in 1..(Len(lout[d]) - 1) :
        OneStepTowards(LineFrom(d), LineTo(d), lout[d][i], lout[d][i + 1])

\* A line that is neither straight nor diagonal, steeper than 45 degrees and
\* going down and to the left, has been yielded to its end.
C23_Witness ==
    /\ lpc = "iter"
    /\ ldone["fwd"]
    /\ LineDx < 0
    /\ LineDy < 0
    /\ Abs(LineDy) > Abs(LineDx)
    /\ Len(lout["fwd"]) >= 3

\* C28: at every point of an iteration size_hint() of a BresenhamLine and of
\* a ThickBresenhamCircle (radius >= 0) is the number of points the iterator
\* will still yield.
C28_SizeHintIsRemaining ==
    /\ lpc = "iter" =>
           \A d \in Dirs : LineSizeHint(lit[d]) = Len(LineCollect(lit[d]))
    /\ (cpc \in {"iter", "done"} /\ ckind = "thick" /\ cradius >= 0) =>
           ThickSizeHint(cit) = Len(ThickCollect(cit))

\* ---- A* on the four way grid, continued

\* The cells of the map of the path search.
PathCells == (0..(pmap.width - 1)) \X (0..(pmap.height - 1))

\* The row-major indices of the walkable cells of the map one orthogonal step
\* from the cell of index a.
AdjacentWalkable(a) ==
    LET x == a % pmap.width
        y == a \div pmap.width
    IN  {q[1] + q[2] * pmap.width :
            q \in {c \in PathCells : /\ c \notin pmap.walls
                                     /\ \/ (c[1] = x /\ Abs(c[2] - y) = 1)
                                        \/ (c[2] = y /\ Abs(c[1] - x) = 1)}}

\* Whether the node n is a walkable cell one orthogonal step from the node a.
IsAdjacentWalkable(a, n) ==
    LET p == <<a % pmap.width, a \div pmap.width>>
        q == <<n % pmap.width, n \div pmap.width>>
    IN  Abs(p[1] - q[1]) + Abs(p[2] - q[2]) = 1 /\ q \notin pmap.walls

\* C24: for every node a of the FourWayGridGraph of the map, neighboors(a)
\* pushes exactly the indices of the walkable cells of the map directly above,
\* below, left and right of a, each once (looked at after the first turn of
\* the search), and every predecessor link the search records goes from a
\* node to such a cell.
C24_NeighboorsAreAdjacentWalkable ==
    /\ (ppc = "search" /\ papi # "custom" /\ psteps = 1) =>
          \A a \in 0..(pmap.width * pmap.height - 1) :
              LET into == Neighboors(PathGraph, a)
              IN  /\ Range(into) = AdjacentWalkable(a)
                  /\ Len(into) = Cardinality(AdjacentWalkable(a))
    /\ (ppc \in {"search", "reconstruct"} /\ papi # "custom") =>
          \A n \in DOMAIN pst.came_from :
              pst.came_from[n] # None => IsAdjacentWalkable(pst.came_from[n], n)

\* On a map 3 wide and 2 high with a wall the search has expanded the last cell
\* of the first row, whose index + 1 is the first cell of the second row, and
\* that cell is walkable with no predecessor.
C24_Witness ==
    /\ ppc = "search"
    /\ papi = "grid"
    /\ pmap.width = 3
    /\ pmap.height = 2
    /\ pmap.walls = {<<1, 1>>}
    /\ pfrom = <<2, 0>>
    /\ psteps = 1
    /\ pst.came_from[1] = 2
    /\ pst.came_from[5] = 2
    /\ pst.came_from[3] = None

\* The cost of the move from the cell p to the adjacent cell q, in thousandths.
ParityCost(p, q) ==
    IF \/ ((p[1] + p[2]) % 2 = 0 /\ q[2] = p[2])
       \/ ((p[1] + p[2]) % 2 = 1 /\ q[1] = p[1])
    THEN CostUnit + 1 ELSE CostUnit

\* C27: cost_between(a, b) for orthogonally adjacent cells is 1.001 when a has
\* even x + y and the move is along x or a has odd x + y and the move is along
\* y, and 1 otherwise; the cost the search records for a node is the cost of
\* its predecessor plus that of the move.
C27_CostNudgeByParity ==
    /\ (ppc = "search" /\ papi = "grid" /\ psteps = 1) =>
          \A p \in PathCells : \A q \in PathCells :
              Manhattan(p, q) = 1 =>
                  /\ CostBetween(PathGraph, p[1] + p[2] * pmap.width,
                                 q[1] + q[2] * pmap.width) = ParityCost(p, q)
                  /\ CostBetween(PathGraph, p[1] + p[2] * pmap.width,
                                 q[1] + q[2] * pmap.width) >= CostUnit
    /\ (ppc \in {"search", "reconstruct"} /\ papi = "grid") =>
          \A n \in DOMAIN pst.came_from :
              pst.came_from[n] # None =>
                  LET a == pst.came_from[n]
                  IN  pst.costs[n] = pst.costs[a]
                        + ParityCost(<<a % pmap.width, a \div pmap.width>>,
                                     <<n % pmap.width, n \div pmap.width>>)

\* The search has recorded costs of 1, 1.001, 2.001 and 2.002: moves with and
\* without the nudge from cells of both parities.
C27_Witness ==
    /\ ppc = "search"
    /\ papi = "grid"
    /\ pmap.walls = {}
    /\ \E n \in DOMAIN pst.costs : pst.costs[n] = CostUnit
    /\ \E n \in DOMAIN pst.costs : pst.costs[n] = CostUnit + 1
    /\ \E n \in DOMAIN pst.costs : pst.costs[n] = 2 * CostUnit + 1
    /\ \E n \in DOMAIN pst.costs : pst.costs[n] = 2 * CostUnit + 2

\* Whether the predecessor links from n lead to the origin in at most fuel steps.
RECURSIVE ChainReaches(_, _)
ChainReaches(n, fuel) ==
    IF n = pst.from_index THEN TRUE
    ELSE IF fuel = 0 \/ n = None THEN FALSE
    ELSE IF pst.came_from[n] = None THEN FALSE
    ELSE ChainReaches(pst.came_from[n], fuel - 1)

\* The destination has been given a cost: the search has reached it.
DestinationReached == pst.costs[pst.to_index] # None

\* C25: during the search the predecessor links of every node that has a cost,
\* the destination among them when it is popped, lead to the origin without a
\* gap or a cycle; reconstruct_path returns None only when the destination was
\* never reached, and a path it returns goes from the origin to the destination.
C25_PredecessorChainUnbroken ==
    /\ ppc \in {"search", "reconstruct"} =>
          \A n \in DOMAIN pst.costs :
              pst.costs[n] # None =>
                  ChainReaches(n, Cardinality(DOMAIN pst.costs) - 1)
    /\ (ppc = "done" /\ pout.kind = "none") => ~DestinationReached
    /\ (ppc = "done" /\ pout.kind = "some") =>
          /\ DestinationReached
          /\ pst.path[1] = pst.to_index
          /\ pst.path[Len(pst.path)] = pst.from_index
          /\ \A k \in 1..(Len(pst.path) - 1) :
                pst.came_from[pst.path[k]] = pst.path[k + 1]

\* The destination has been popped on a map with walls: its links lead to the
\* origin over at least four nodes.
C25_Witness ==
    /\ ppc = "reconstruct"
    /\ pmap.walls # {}
    /\ pst.current = pst.to_index
    /\ pst.path = <<>>
    /\ DestinationReached
    /\ pst.to_index # pst.from_index
    /\ pst.came_from[pst.to_index] # pst.from_index
    /\ pst.came_from[pst.came_from[pst.to_index]] # pst.from_index
    /\ pst.came_from[pst.came_from[pst.came_from[pst.to_index]]] # pst.from_index

\* A call astar_path_fourwaygrid with both points inside the map and the
\* origin not walkable has ended.
UnwalkableOriginDone ==
    /\ ppc = "done"
    /\ papi = "grid"
    /\ InPathMap(pfrom)
    /\ InPathMap(pto)
    /\ pfrom \in pmap.walls

\* C30 as the claim states it: from an origin that is not walkable
\* astar_path_fourwaygrid returns [from] for to = from and a path to every
\* destination reachable through walkable cells, and is_walkable is never
\* called with the origin.
C30_OriginNeverAsked ==
    UnwalkableOriginDone =>
        /\ pto = pfrom => pout = PathSome(<<pfrom>>)
        /\ pout.kind \in {"some", "none"}
        /\ (pout.kind = "some") <=> (pto \in ReachableSet(pmap, {pfrom}))
        /\ pfrom \notin pst.asked

\* C30, amended: from an origin that is not walkable astar_path_fourwaygrid
\* returns [from] for to = from, without a call of is_walkable, and a path to
\* every destination reachable through walkable cells; is_walkable is called
\* with the origin only after the second pop, for a neighbour of the origin
\* that looks back at it.
C30_OriginWalkabilityNoEffect ==
    /\ UnwalkableOriginDone =>
          /\ pto = pfrom => (pout = PathSome(<<pfrom>>) /\ pst.asked = {})
          /\ pout.kind \in {"some", "none"}
          /\ (pout.kind = "some") <=> (pto \in ReachableSet(pmap, {pfrom}))
    /\ (papi = "grid" /\ ppc \in {"search", "reconstruct", "done"} /\ psteps <= 1) =>
          pfrom \notin pst.asked

\* From an origin that is not walkable a path of four points has been returned.
C30_Witness ==
    /\ UnwalkableOriginDone
    /\ pout.kind = "some"
    /\ Len(pout.path) = 4
    /\ pout.path[1] = pfrom

\* The cell the upper lane is on after k - 1 steps, for k up to the steps
\* of the whole lane + 1: the way in, the zigzags, the way out.
UpperLaneSteps == (2 * LanePeriod - 4) * LongPeriods + 4
UpperLaneCell(k) ==
    LET steps == 2 * LanePeriod - 4
        j == k - 1 - UpperStart
        r == j % steps
        base == UpperStart + (j \div steps) * LanePeriod
        half == 2 * LaneHeight + 2
        t == IF r < half THEN r ELSE r - half
        col == IF t <= 2 * LaneHeight THEN (t + 1) \div 2 ELSE t - LaneHeight
        up == IF t <= 2 * LaneHeight THEN t \div 2 ELSE LaneHeight
    IN  IF k - 1 <= UpperStart THEN <<k - 1, LaneHeight>>
        ELSE IF k = UpperLaneSteps + 1 THEN LongTo
        ELSE IF j >= steps * LongPeriods
             THEN <<UpperStart + LanePeriod * LongPeriods + j - steps * LongPeriods,
                    LaneHeight>>
        ELSE IF r < half
             THEN <<base + col, LaneHeight - up>>
             ELSE <<base + LaneHeight + 2 + col, up>>
UpperLane == [k \in 1..(UpperLaneSteps + 1) |-> UpperLaneCell(k)]

\* A chain of orthogonal moves through walkable cells of the map, from from
\* to to.
IsChain(chain) ==
    /\ Len(chain) >= 1
    /\ chain[1] = pfrom
    /\ chain[Len(chain)] = pto
    /\ \A k \in 1..(Len(chain) - 1) : Manhattan(chain[k], chain[k + 1]) = 1
    /\ \A k \in 2..Len(chain) : InPathMap(chain[k]) /\ chain[k] \notin pmap.walls

\* The least number of steps of a chain from the cells of S to to, counted
\* from k, for a destination that can be reached.
RECURSIVE StepsFrom(_, _)
StepsFrom(S, k) ==
    IF pto \in S THEN k
    ELSE LET T == ReachStep(pmap, S)
         IN  IF T = S THEN None ELSE StepsFrom(T, k + 1)
ShortestSteps == StepsFrom({pfrom}, 0)

\* astar_path_fourwaygrid(map, from, to) for points of the map, as a function
\* of its arguments.
GridRun ==
    AstarRun(PathGraph, PointToIndex(PathGraph, pfrom), PointToIndex(PathGraph, pto))

\* C22: a path astar_path_fourwaygrid returns has the least number of steps of
\* all chains of orthogonal moves through walkable cells from from to to: on a
\* small map that number is counted when the call has returned; on a map that
\* holds the upper lane the path the call is going to return is not longer
\* than the lane.
C22_PathIsShortest ==
    /\ (PathGridReturned /\ pout.kind = "some"
          /\ pmap.width * pmap.height <= (MaxPathWidth + 1) * (MaxPathHeight + 1)) =>
              Len(pout.path) - 1 = ShortestSteps
    /\ (ppc = "call" /\ papi = "grid" /\ IsChain(UpperLane)) =>
          LET r == GridRun
          IN  /\ r.pc = "done"
              /\ r.kind = "some" => Len(r.st.path) <= Len(UpperLane)

\* C22 on the maps up to MaxPathWidth x MaxPathHeight alone.
C22_ShortOnSmallMaps ==
    (PathGridReturned /\ pout.kind = "some") => Len(pout.path) - 1 = ShortestSteps

\* The path a call of astar_path_fourwaygrid returns is the one the function
\* GridRun gives, or one of the same number of points and the same cost.
GridRunAgrees ==
    (PathGridReturned /\ pmap.width * pmap.height <= 400) =>
        LET r == GridRun
        IN  /\ r.pc = "done"
            /\ r.kind = pout.kind
            /\ r.kind = "some" => Len(r.st.path) = Len(pout.path)
            /\ r.st.costs[pst.to_index] = pst.costs[pst.to_index]

\* C26: a call astar_path_fourwaygrid with from and to inside the map returns
\* in the end, with a path or with None.
C26_GridCallReturns ==
    <>(ppc = "done" /\ papi = "grid" /\ pout.kind \in {"some", "none"})

\* A call has returned None after a search in which a node was pushed again
\* on a lower cost: more entries were popped than nodes have a cost.
C26_Witness ==
    /\ PathGridReturned
    /\ pout.kind = "none"
    /\ psteps > Cardinality({n \in DOMAIN pst.costs : pst.costs[n] # None})

=============================================================================
